---- MODULE Spec2Model ----
(***************************************************************************)
(* The two tool entry points of app/backend/mcp_server.py:                 *)
(*   search_my_documentation(search_query, search_topic)                   *)
(*   upload_to_my_documentation(filepath, search_topic)                    *)
(* together with the collaborators they drive: blob storage, the search    *)
(* indexes, and the per-file ingestion pipeline behind add_file            *)
(* (extract -> chunk -> embed -> index).                                   *)
(*                                                                         *)
(* Strings built by the program are modelled as sequences of string        *)
(* tokens, concatenation being \o, so that a message keeps its parts.      *)
(***************************************************************************)
EXTENDS Integers, Sequences, FiniteSets, TLC

VARIABLES
    env,        \* the settings present in os.environ (read-only at run time)
    storage,    \* the blob container: blob name -> bytes
    index,      \* the search service: index name -> set of records
    upc,        \* upload call -> position in upload_to_my_documentation
    uargs,      \* upload call -> [filepath, search_topic] as passed by the caller
    ulocal,     \* upload call -> its local variables
    uout,       \* upload call -> [outcome, result]
    done_steps, \* upload call -> the external steps that call has completed
    writes,     \* the index writes issued so far: [call, index, id]
    snap,       \* upload call -> <<storage, index>> at the moment it returned
    preceded,   \* upload call -> the calls that had returned when it was invoked
    spc,        \* search call -> position in search_my_documentation
    sargs,      \* search call -> [search_query, search_topic]
    sout,       \* search call -> [outcome, result]
    sresp,      \* search call -> the ranked sequence the backend returned to it
    clients,    \* search call -> the SearchClient objects it constructed
    requests    \* the network calls issued to the search service

uvars == <<upc, uargs, ulocal, uout, done_steps, writes, snap, preceded>>
svars == <<spc, sargs, sout, sresp, clients, requests>>
vars == <<env, storage, index, uvars, svars>>

----------------------------------------------------------------------------
(* Bounds of the model *)

\* the longest ranked result sequence the search backend returns in the model
MaxResults == 2

\* the attempts the embedding stage makes before it gives up
MaxEmbedAttempts == 2

UploadCalls == {"u1", "u2"}

\* upload calls are numbered in the order they arrive
EarlierCalls(c) == IF c = "u2" THEN {"u1"} ELSE {}
SearchCalls == {"s1"}

\* messages of the faults external calls raise
Reasons == {"timeout", "rejected"}

None == "None"

----------------------------------------------------------------------------
(* Topic table *)

MODELCONTEXTPROTOCOL == "Model Context Protocol"
FLASK == "Flask"
ESLINT == "ESLint"

DocumentationTopic == {MODELCONTEXTPROTOCOL, FLASK, ESLINT}

\* values a direct caller can pass that are no member of the enumeration:
\* a case variant and a partial match
ForeignTopics == {"flask", "Model Context"}

TopicValues == DocumentationTopic \cup ForeignTopics

\* the topic values passed to the upload entry point in the model
UploadTopics == DocumentationTopic \cup {"flask"}

search_indices ==
    [t \in DocumentationTopic |->
        CASE t = MODELCONTEXTPROTOCOL -> "gptkbindex"
          [] t = FLASK -> "gptkbindex-flask"
          [] t = ESLINT -> "gptkbindex-eslint"]

IndexNames == {search_indices[t] : t \in DocumentationTopic}

\* a lookup that folds case before matching the key
IndexOfCaseFolded(topic) ==
    IF topic \in DOMAIN search_indices THEN search_indices[topic]
    ELSE IF topic = "flask" THEN search_indices[FLASK]
    ELSE None

\* a lookup that falls back to the first index for a key not in the table
IndexOfWithDefault(topic) ==
    IF topic \in DOMAIN search_indices THEN search_indices[topic] ELSE "gptkbindex"

\* search_indices.get(topic): the index name, or None for a key not in the table
IndexOf(topic) ==
    IF topic \in DOMAIN search_indices THEN search_indices[topic] ELSE None

----------------------------------------------------------------------------
(* Environment *)

SEARCH_SERVICE == "AZURE_SEARCH_SERVICE"
STORAGE_ACCOUNT == "AZURE_STORAGE_ACCOUNT"
STORAGE_CONTAINER == "AZURE_STORAGE_CONTAINER"
EMB_MODEL_NAME == "AZURE_OPENAI_EMB_MODEL_NAME"
EMB_DIMENSIONS == "AZURE_OPENAI_EMB_DIMENSIONS"

\* USE_VECTORS is set to "false"
USE_VECTORS_FALSE == "USE_VECTORS=false"

Settings ==
    {SEARCH_SERVICE, STORAGE_ACCOUNT, STORAGE_CONTAINER, EMB_MODEL_NAME, EMB_DIMENSIONS}

\* the deployments considered: fully configured, or one setting left unset
Environments ==
    {Settings, Settings \cup {USE_VECTORS_FALSE}} \cup {Settings \ {x} : x \in Settings}

\* line 159: disable_vectors=os.getenv("USE_VECTORS", "").lower() == "false"
disable_vectors == USE_VECTORS_FALSE \in env

----------------------------------------------------------------------------
(* Faults and the strings the entry points build *)

\* an exception object: its class, str(e), and the call that raised it
Fault(cls, msg, site) == [cls |-> cls, msg |-> msg, site |-> site]

\* os.environ[name] for a name that is not set: KeyError, str(e) = "'name'"
KeyErrorOf(name) == Fault("KeyError", "'" \o name \o "'", "os.environ")

\* the classes that derive from Exception (all that the calls made here raise)
ExceptionClasses ==
    {"KeyError", "FileNotFoundError", "HttpResponseError", "RuntimeError",
     "UnsupportedFormat", "ExtractionFailed", "ChunkingFailed",
     "EmbeddingFailed", "IndexWriteFailed"}

NoFault == Fault(None, None, None)

\* how a call ended: by returning a string (after catching fault, if any), or by
\* letting the fault out to its caller
Returned(str) == [outcome |-> "returned", result |-> str, fault |-> NoFault]
Caught(e, str) == [outcome |-> "returned", result |-> str, fault |-> e]
Raised(e) == [outcome |-> "raised", result |-> <<>>, fault |-> e]
NoOutcome == [outcome |-> "none", result |-> <<>>, fault |-> NoFault]

NOT_FOUND == <<"Error: ", "Could not find appropriate search index for the given topic.">>
FILE_EMPTY == <<"Error: ", "File is empty.">>
STORAGE_NOT_CONFIGURED == <<"Error: ", "Storage account is not configured.">>

\* search_my_documentation, except Exception as e: return f"Error: {e}"
SearchHandler(e) ==
    IF e.cls \in ExceptionClasses THEN Caught(e, <<"Error: ", e.msg>>) ELSE Raised(e)

\* traceback.format_exc(): the frames down to the raising call, then "cls: msg"
FormatExc(e) == <<e.site, e.cls, ": ", e.msg>>

\* a handler that reports a fixed message, whatever was raised
UploadHandlerFixedMessage(e) ==
    IF e.cls \in ExceptionClasses
    THEN Caught(e, <<"Error uploading file: ", "the file could not be processed">>)
    ELSE Raised(e)

\* a handler that reports the message alone, without the traceback
UploadHandlerMessageOnly(e) ==
    IF e.cls \in ExceptionClasses
    THEN Caught(e, <<"Error uploading file: ", e.msg>>)
    ELSE Raised(e)

\* a handler that catches the storage and search services' errors only
UploadHandlerServiceErrors(e) ==
    IF e.cls = "HttpResponseError"
    THEN Caught(e, <<"Error uploading file: ", e.msg, "\nTraceback: ">> \o FormatExc(e))
    ELSE Raised(e)

\* upload_to_my_documentation, except Exception as e:
\*   return f"Error uploading file: {str(e)}\nTraceback: {traceback.format_exc()}"
UploadHandler(e) ==
    IF e.cls \in ExceptionClasses
    THEN Caught(e, <<"Error uploading file: ", e.msg, "\nTraceback: ">> \o FormatExc(e))
    ELSE Raised(e)

SuccessMessage(filename) ==
    <<"File '", filename, "' uploaded and processed successfully. It is now searchable in the index.">>

StartsWithError(str) ==
    Len(str) > 0 /\ str[1] \in {"Error: ", "Error uploading file: "}

----------------------------------------------------------------------------
(* search_my_documentation *)

NL == "\n"

Docs == [sourcepage : {"a.md", "b.md"}, content : {"alpha", "beta"}]

BoundedSeq(S, n) == UNION {[1..k -> S] : k \in 0..n}

\* f"[{doc['sourcepage']}]: {doc['content']}\n"
FormatDoc(doc) == <<"[", doc.sourcepage, "]: ", doc.content, NL>>

\* sep.join(parts)
RECURSIVE Join(_, _)
Join(sep, parts) ==
    IF parts = <<>> THEN <<>>
    ELSE IF Len(parts) = 1 THEN parts[1]
    ELSE parts[1] \o sep \o Join(sep, Tail(parts))

\* the results formatted last-ranked first
FormatResultsReversed(docs) ==
    Join(<<NL, NL>>, [i \in 1..Len(docs) |-> FormatDoc(docs[Len(docs) + 1 - i])])

\* an empty result set reported as an error
FormatResultsOrError(docs) ==
    IF docs = <<>> THEN <<"Error: ", "no results">>
    ELSE Join(<<NL, NL>>, [i \in 1..Len(docs) |-> FormatDoc(docs[i])])

\* "\n\n".join([f"[{doc['sourcepage']}]: {doc['content']}\n" async for doc in results])
FormatResults(docs) ==
    Join(<<NL, NL>>, [i \in 1..Len(docs) |-> FormatDoc(docs[i])])

\* top=10: the result cap of the query
TOP == 10

\* the service's answer to a semantic query on an index without semantic ranking
SEMANTIC_UNAVAILABLE == "semantic ranking is not available for this index"

\* the SearchClient constructed for a call
Client(index_name) == [endpoint |-> SEARCH_SERVICE, index_name |-> index_name]

\* the query search_client.search(...) sends
Query(s, index_name, search_query) ==
    [call |-> s, index_name |-> index_name, search_text |-> search_query,
     top |-> TOP, query_type |-> "semantic",
     semantic_configuration_name |-> "default", semantic_query |-> search_query]

SearchReturn(s, out) ==
    /\ spc' = [spc EXCEPT ![s] = "done"]
    /\ sout' = [sout EXCEPT ![s] = out]

\* lines 60-78: read the setting, resolve the topic, build the client, send the query
SearchInvoke(s, search_query, search_topic) ==
    /\ spc[s] = "idle"
    /\ sargs' = [sargs EXCEPT ![s] =
                    [search_query |-> search_query, search_topic |-> search_topic]]
    /\ IF SEARCH_SERVICE \notin env
       THEN /\ SearchReturn(s, SearchHandler(KeyErrorOf(SEARCH_SERVICE)))
            /\ UNCHANGED <<clients, requests>>
       ELSE IF IndexOf(search_topic) = None
       THEN /\ SearchReturn(s, Returned(NOT_FOUND))
            /\ UNCHANGED <<clients, requests>>
       ELSE /\ clients' = [clients EXCEPT ![s] = @ \cup {Client(IndexOf(search_topic))}]
            /\ requests' = requests \cup {Query(s, IndexOf(search_topic), search_query)}
            /\ spc' = [spc EXCEPT ![s] = "searching"]
            /\ UNCHANGED sout
    /\ UNCHANGED <<env, storage, index, uvars, sresp>>

\* lines 79-80: the backend answers with a ranked sequence, which is formatted
SearchResponse(s, docs) ==
    /\ spc[s] = "searching"
    /\ sresp' = [sresp EXCEPT ![s] = [answered |-> TRUE, docs |-> docs]]
    /\ SearchReturn(s, Returned(FormatResults(docs)))
    /\ UNCHANGED <<env, storage, index, uvars, sargs, clients, requests>>

\* lines 72-82: the query, or the iteration over its results, raises
SearchFail(s, site, reason) ==
    /\ spc[s] = "searching"
    /\ SearchReturn(s, SearchHandler(Fault("HttpResponseError", reason, site)))
    /\ UNCHANGED <<env, storage, index, uvars, sargs, sresp, clients, requests>>

\* lines 72-82: the resolved index has no semantic ranking; the service refuses
\* the query, which asks for QueryType.SEMANTIC, and the fault is caught
SemanticUnavailable(s) ==
    /\ spc[s] = "searching"
    /\ \E q \in requests : q.call = s /\ q.query_type = "semantic"
    /\ SearchReturn(s, SearchHandler(
            Fault("HttpResponseError", SEMANTIC_UNAVAILABLE, "search_client.search")))
    /\ UNCHANGED <<env, storage, index, uvars, sargs, sresp, clients, requests>>

SearchNext ==
    \E s \in SearchCalls :
        \/ \E q \in {"how to"}, t \in TopicValues : SearchInvoke(s, q, t)
        \/ \E docs \in BoundedSeq(Docs, MaxResults) : SearchResponse(s, docs)
        \/ \E site \in {"search_client.search", "async for doc in results"}, r \in Reasons :
              SearchFail(s, site, r)
        \/ SemanticUnavailable(s)

----------------------------------------------------------------------------
(* The local file system, blob storage and the search indexes *)

\* a path is its directory followed by its file name
Files ==
    (<<"a", "notes.txt">> :> <<"n1", "n2">>) @@
    (<<"b", "notes.txt">> :> <<"m1">>) @@
    (<<"a", "guide.md">> :> <<"g1">>) @@
    (<<"a", "image.xyz">> :> <<"x1">>) @@
    (<<"a", "empty.txt">> :> <<>>)

Paths == DOMAIN Files \cup {<<"a", "missing.txt">>}

\* os.path.basename(filepath)
basename(filepath) == filepath[Len(filepath)]

\* blob_client.url of the blob named filename
BlobUrl(filename) == "https://account.blob.core.windows.net/container/" \o filename

\* an upload that keeps an existing object and stores the new one beside it
UploadBlobKeepBoth(st, name, data) ==
    LET free == IF name \in DOMAIN st THEN name \o " (1)" ELSE name IN
    [n \in DOMAIN st \cup {free} |-> IF n = free THEN data ELSE st[n]]

\* blob_client.upload_blob(file_io, overwrite=True)
UploadBlob(st, name, data) ==
    [n \in DOMAIN st \cup {name} |-> IF n = name THEN data ELSE st[n]]

EmptyStorage == [n \in {} |-> <<>>]

\* the record of the chunk at position i of the file named filename
Record(filename, url, i, text, vector) ==
    [id |-> <<filename, i>>, content |-> text, sourcepage |-> filename,
     sourcefile |-> url, acls |-> {}, vector |-> vector]

\* insert-or-overwrite by record id
Upsert(recs, new) ==
    {r \in recs : \A n \in new : n.id # r.id} \cup new

\* the index service after the records are upserted into index name
IndexUpsert(ix, name, new) == [ix EXCEPT ![name] = Upsert(@, new)]

SeqToSet(seq) == {seq[i] : i \in 1..Len(seq)}

----------------------------------------------------------------------------
(* upload_to_my_documentation *)

NoLocals ==
    [file_data |-> <<>>, filename |-> None, url |-> None, search_index |-> None,
     sections |-> <<>>, chunks |-> <<>>, records |-> <<>>, attempts |-> 0]

\* line 138: the topic the ingestion is indexed under
IngestTopic(search_topic) == MODELCONTEXTPROTOCOL

\* the call returns (or lets a fault out): st and ix are storage and index then
Finish(c, out, st, ix) ==
    /\ upc' = [upc EXCEPT ![c] = "done"]
    /\ uout' = [uout EXCEPT ![c] = out]
    /\ snap' = [snap EXCEPT ![c] = <<st, ix>>]

\* the entry point without the test for an empty file: the upload starts
InvokeWithoutEmptyCheck(c, filepath, search_topic) ==
    /\ upc[c] = "idle"
    /\ \A d \in EarlierCalls(c) : upc[d] # "idle"
    /\ uargs' = [uargs EXCEPT ![c] = [filepath |-> filepath, search_topic |-> search_topic]]
    /\ preceded' = [preceded EXCEPT ![c] = {d \in UploadCalls : upc[d] = "done"}]
    /\ IF filepath \notin DOMAIN Files
       THEN /\ Finish(c, UploadHandler(Fault("FileNotFoundError", "No such file", "open")),
                      storage, index)
            /\ UNCHANGED ulocal
       ELSE IF STORAGE_ACCOUNT \notin env \/ STORAGE_CONTAINER \notin env
       THEN /\ Finish(c, Returned(STORAGE_NOT_CONFIGURED), storage, index)
            /\ UNCHANGED ulocal
       ELSE /\ ulocal' = [ulocal EXCEPT ![c] =
                            [NoLocals EXCEPT !.file_data = Files[filepath],
                                             !.filename = basename(filepath),
                                             !.url = BlobUrl(basename(filepath))]]
            /\ upc' = [upc EXCEPT ![c] = "upload_blob"]
            /\ UNCHANGED <<uout, snap>>
    /\ UNCHANGED <<env, storage, index, done_steps, writes, svars>>

\* lines 97-124: read the file, check the storage settings, start the upload
Invoke(c, filepath, search_topic) ==
    /\ upc[c] = "idle"
    /\ \A d \in EarlierCalls(c) : upc[d] # "idle"
    /\ uargs' = [uargs EXCEPT ![c] = [filepath |-> filepath, search_topic |-> search_topic]]
    /\ preceded' = [preceded EXCEPT ![c] = {d \in UploadCalls : upc[d] = "done"}]
    /\ IF filepath \notin DOMAIN Files
       THEN /\ Finish(c, UploadHandler(Fault("FileNotFoundError", "No such file", "open")),
                      storage, index)
            /\ UNCHANGED ulocal
       ELSE IF Files[filepath] = <<>>
       THEN /\ Finish(c, Returned(FILE_EMPTY), storage, index)
            /\ UNCHANGED ulocal
       ELSE IF STORAGE_ACCOUNT \notin env \/ STORAGE_CONTAINER \notin env
       THEN /\ Finish(c, Returned(STORAGE_NOT_CONFIGURED), storage, index)
            /\ UNCHANGED ulocal
       ELSE /\ ulocal' = [ulocal EXCEPT ![c] =
                            [NoLocals EXCEPT !.file_data = Files[filepath],
                                             !.filename = basename(filepath),
                                             !.url = BlobUrl(basename(filepath))]]
            /\ upc' = [upc EXCEPT ![c] = "upload_blob"]
            /\ UNCHANGED <<uout, snap>>
    /\ UNCHANGED <<env, storage, index, done_steps, writes, svars>>

\* the pipeline goes on while the upload, not awaited, has not stored the object
UploadBlobNotAwaited(c) ==
    /\ upc[c] = "upload_blob"
    /\ upc' = [upc EXCEPT ![c] = "setup"]
    /\ UNCHANGED <<env, storage, index, uargs, ulocal, uout, done_steps, writes, snap,
                   preceded, svars>>

\* line 124: the awaited upload_blob completes, the object is stored
UploadBlobDone(c) ==
    /\ upc[c] = "upload_blob"
    /\ storage' = UploadBlob(storage, ulocal[c].filename, ulocal[c].file_data)
    /\ done_steps' = [done_steps EXCEPT ![c] = @ \cup {"upload"}]
    /\ upc' = [upc EXCEPT ![c] = "setup"]
    /\ UNCHANGED <<env, index, uargs, ulocal, uout, writes, snap, preceded, svars>>

\* a failed upload passed over: the pipeline goes on without the object
UploadBlobFailIgnored(c, reason) ==
    /\ upc[c] = "upload_blob"
    /\ upc' = [upc EXCEPT ![c] = "setup"]
    /\ UNCHANGED <<env, storage, index, uargs, ulocal, uout, done_steps, writes, snap,
                   preceded, svars>>

\* line 124: upload_blob raises
UploadBlobFail(c, reason) ==
    /\ upc[c] = "upload_blob"
    /\ Finish(c, UploadHandler(Fault("HttpResponseError", reason, "upload_blob")),
              storage, index)
    /\ UNCHANGED <<env, storage, index, uargs, ulocal, done_steps, writes, preceded, svars>>

\* the first setting, in the order lines 143-155 read them, that is not set
MissingSetting ==
    IF SEARCH_SERVICE \notin env THEN SEARCH_SERVICE
    ELSE IF EMB_MODEL_NAME \notin env THEN EMB_MODEL_NAME
    ELSE IF EMB_DIMENSIONS \notin env THEN EMB_DIMENSIONS
    ELSE None

\* lines 127-165: the ingester components are set up for the resolved index
Setup(c) ==
    /\ upc[c] = "setup"
    /\ LET search_index == IndexOf(IngestTopic(uargs[c].search_topic)) IN
       IF search_index = None
       THEN /\ Finish(c, Returned(NOT_FOUND), storage, index)
            /\ UNCHANGED ulocal
       ELSE IF MissingSetting # None
       THEN /\ Finish(c, UploadHandler(KeyErrorOf(MissingSetting)), storage, index)
            /\ UNCHANGED ulocal
       ELSE /\ ulocal' = [ulocal EXCEPT ![c].search_index = search_index]
            /\ upc' = [upc EXCEPT ![c] = "extract"]
            /\ UNCHANGED <<uout, snap>>
    /\ UNCHANGED <<env, storage, index, uargs, done_steps, writes, preceded, svars>>

\* the set-up calls, each with what must be set for it to be reached
SetupSites ==
    {"setup_file_processors"}
    \cup (IF SEARCH_SERVICE \in env THEN {"setup_search_info"} ELSE {})
    \cup (IF MissingSetting = None THEN {"setup_embeddings_service"} ELSE {})

\* lines 130-160: a set-up call raises
SetupFail(c, site, reason) ==
    /\ upc[c] = "setup"
    /\ site \in SetupSites
    /\ Finish(c, UploadHandler(Fault("RuntimeError", reason, site)), storage, index)
    /\ UNCHANGED <<env, storage, index, uargs, ulocal, done_steps, writes, preceded, svars>>

----------------------------------------------------------------------------
(* add_file: the per-file pipeline, Uploaded -> Extracted -> Chunked ->    *)
(* Embedded -> Indexed | Failed(stage, reason)                             *)

\* the typed failure a stage raises
FailureClass(stage) ==
    CASE stage = "extract" -> "ExtractionFailed"
      [] stage = "chunk" -> "ChunkingFailed"
      [] stage = "embed" -> "EmbeddingFailed"
      [] stage = "index" -> "IndexWriteFailed"

StageFault(stage, reason) == Fault(FailureClass(stage), reason, stage)

\* os.path.splitext(filename)[1]
Extension(filename) ==
    CASE filename = "notes.txt" -> ".txt"
      [] filename = "empty.txt" -> ".txt"
      [] filename = "missing.txt" -> ".txt"
      [] filename = "guide.md" -> ".md"
      [] filename = "image.xyz" -> ".xyz"

\* the extensions an extractor variant exists for
SupportedExtensions == {".txt", ".md"}

UNSUPPORTED_FORMAT == "Unsupported format"

\* ContentExtractor: the file's sections, each with the page it came from
ExtractSections(file_data) ==
    [i \in 1..Len(file_data) |-> [text |-> file_data[i], page |-> i]]

\* Chunker: every section here is shorter than a chunk and yields exactly one
ChunkSections(sections) ==
    [i \in 1..Len(sections) |-> [text |-> sections[i].text, position |-> i]]

\* EmbeddingClient: one vector per chunk text, none when vectors are disabled
Embedding(text) == IF disable_vectors THEN None ELSE "vector of " \o text

\* the index records of the chunks of one file
ChunkRecords(filename, url, chunks) ==
    [i \in 1..Len(chunks) |->
        Record(filename, url, chunks[i].position, chunks[i].text, Embedding(chunks[i].text))]

\* ContentExtractor: no variant matches the file, or the matching one extracts
Extract(c) ==
    /\ upc[c] = "extract"
    /\ IF Extension(ulocal[c].filename) \notin SupportedExtensions
       THEN /\ Finish(c, UploadHandler(Fault("UnsupportedFormat", UNSUPPORTED_FORMAT, "extract")),
                      storage, index)
            /\ UNCHANGED <<ulocal, done_steps>>
       ELSE /\ ulocal' = [ulocal EXCEPT ![c].sections = ExtractSections(ulocal[c].file_data)]
            /\ done_steps' = [done_steps EXCEPT ![c] = @ \cup {"extract"}]
            /\ upc' = [upc EXCEPT ![c] = "chunk"]
            /\ UNCHANGED <<uout, snap>>
    /\ UNCHANGED <<env, storage, index, uargs, writes, preceded, svars>>

Chunk(c) ==
    /\ upc[c] = "chunk"
    /\ ulocal' = [ulocal EXCEPT ![c].chunks = ChunkSections(ulocal[c].sections)]
    /\ done_steps' = [done_steps EXCEPT ![c] = @ \cup {"chunk"}]
    /\ upc' = [upc EXCEPT ![c] = "embed"]
    /\ UNCHANGED <<env, storage, index, uargs, uout, writes, snap, preceded, svars>>

\* EmbeddingClient: the provider answers (it is not called when vectors are
\* disabled) and every chunk gets its vector
Embed(c) ==
    /\ upc[c] = "embed"
    /\ ulocal' = [ulocal EXCEPT ![c].records =
                     ChunkRecords(ulocal[c].filename, ulocal[c].url, ulocal[c].chunks)]
    /\ done_steps' = [done_steps EXCEPT ![c] = @ \cup {"embed"}]
    /\ upc' = [upc EXCEPT ![c] = "index"]
    /\ UNCHANGED <<env, storage, index, uargs, uout, writes, snap, preceded, svars>>

\* EmbeddingClient: the provider fails; the call is retried until the attempts
\* are used up, and then the ingestion fails with EmbeddingFailed
EmbedAttemptFail(c, reason) ==
    /\ upc[c] = "embed"
    /\ ~disable_vectors
    /\ ulocal' = [ulocal EXCEPT ![c].attempts = @ + 1]
    /\ IF ulocal[c].attempts + 1 < MaxEmbedAttempts
       THEN UNCHANGED <<upc, uout, snap>>
       ELSE Finish(c, UploadHandler(StageFault("embed", reason)), storage, index)
    /\ UNCHANGED <<env, storage, index, uargs, done_steps, writes, preceded, svars>>

\* the writes call c issues for records new into index name
WritesOf(c, name, new) == {[call |-> c, index |-> name, id |-> r.id] : r \in new}

\* IndexUpserter writes every record; add_file returns and line 170 reports success
IndexWrite(c) ==
    /\ upc[c] = "index"
    /\ LET new == SeqToSet(ulocal[c].records)
           ix == IndexUpsert(index, ulocal[c].search_index, new) IN
       /\ index' = ix
       /\ writes' = writes \cup WritesOf(c, ulocal[c].search_index, new)
       /\ Finish(c, Returned(SuccessMessage(ulocal[c].filename)), storage, ix)
    /\ done_steps' = [done_steps EXCEPT ![c] = @ \cup {"index"}]
    /\ UNCHANGED <<env, storage, uargs, ulocal, preceded, svars>>

\* extraction or chunking fails: Failed(stage, reason)
StageFail(c, reason) ==
    /\ upc[c] \in {"extract", "chunk"}
    /\ upc[c] = "extract" => Extension(ulocal[c].filename) \in SupportedExtensions
    /\ Finish(c, UploadHandler(StageFault(upc[c], reason)), storage, index)
    /\ UNCHANGED <<env, storage, index, uargs, ulocal, done_steps, writes, preceded, svars>>

\* the index service rejects a record after the first k were written
IndexWriteFail(c, k, reason) ==
    /\ upc[c] = "index"
    /\ k \in 0..(Len(ulocal[c].records) - 1)
    /\ LET new == SeqToSet(SubSeq(ulocal[c].records, 1, k))
           ix == IndexUpsert(index, ulocal[c].search_index, new) IN
       /\ index' = ix
       /\ writes' = writes \cup WritesOf(c, ulocal[c].search_index, new)
       /\ Finish(c, UploadHandler(StageFault("index", reason)), storage, ix)
    /\ UNCHANGED <<env, storage, uargs, ulocal, done_steps, preceded, svars>>

UploadStep(c) ==
        \/ \E p \in Paths, t \in UploadTopics : Invoke(c, p, t)
        \/ UploadBlobDone(c)
        \/ \E r \in Reasons : UploadBlobFail(c, r)
        \/ Setup(c)
        \/ \E site \in SetupSites, r \in Reasons : SetupFail(c, site, r)
        \/ Extract(c)
        \/ Chunk(c)
        \/ Embed(c)
        \/ \E r \in Reasons : EmbedAttemptFail(c, r)
        \/ IndexWrite(c)
        \/ \E r \in Reasons : StageFail(c, r)
        \/ \E k \in 0..(Len(ulocal[c].records) - 1), r \in Reasons : IndexWriteFail(c, k, r)

UploadNext == \E c \in UploadCalls : UploadStep(c)

----------------------------------------------------------------------------
(* Specifications *)

NoArgs == [filepath |-> <<>>, search_topic |-> None]

Init ==
    /\ env \in Environments
    /\ storage = EmptyStorage
    /\ index = [n \in IndexNames |-> {}]
    /\ upc = [c \in UploadCalls |-> "idle"]
    /\ uargs = [c \in UploadCalls |-> NoArgs]
    /\ ulocal = [c \in UploadCalls |-> NoLocals]
    /\ uout = [c \in UploadCalls |-> NoOutcome]
    /\ done_steps = [c \in UploadCalls |-> {}]
    /\ writes = {}
    /\ snap = [c \in UploadCalls |-> <<EmptyStorage, [n \in IndexNames |-> {}]>>]
    /\ preceded = [c \in UploadCalls |-> {}]
    /\ spc = [s \in SearchCalls |-> "idle"]
    /\ sargs = [s \in SearchCalls |-> [search_query |-> None, search_topic |-> None]]
    /\ sout = [s \in SearchCalls |-> NoOutcome]
    /\ sresp = [s \in SearchCalls |-> [answered |-> FALSE, docs |-> <<>>]]
    /\ clients = [s \in SearchCalls |-> {}]
    /\ requests = {}

\* upload calls, running concurrently
Spec == Init /\ [][UploadNext]_vars

\* search calls
SearchSpec == Init /\ [][SearchNext]_vars

\* one call of each entry point, running concurrently
EntryNext == UploadStep("u1") \/ SearchNext

EntrySpec == Init /\ [][EntryNext]_vars

----------------------------------------------------------------------------
(* Properties *)

UDone(c) == upc[c] = "done"
SDone(s) == spc[s] = "done"
PipelineSteps == {"extract", "chunk", "embed", "index"}
InPipeline(c) == upc[c] \in PipelineSteps

\* C1: an upload made with a topic T of the closed set writes its index records
\* into search_indices[T] and into no other index.
C1_IngestWritesIntoTopicIndex ==
    \A w \in writes :
        uargs[w.call].search_topic \in DocumentationTopic
            => w.index = search_indices[uargs[w.call].search_topic]

\* C2: every invocation of either entry point that has ended has ended by
\* returning a string, whichever step failed, and no invocation that has started
\* and not yet ended is stuck: no fault gets out of an entry point.
C2_EntryPointsReturnStrings ==
    /\ \A c \in UploadCalls :
          /\ UDone(c) => uout[c].outcome = "returned" /\ uout[c].result \in Seq(STRING)
          /\ upc[c] \notin {"idle", "done"} => ENABLED UploadStep(c)
    /\ \A s \in SearchCalls :
          /\ SDone(s) => sout[s].outcome = "returned" /\ sout[s].result \in Seq(STRING)
          /\ spc[s] = "searching" => ENABLED SearchNext

\* an upload that ended on a fault of add_file beside a search that ended on a fault
C2_Witness ==
    /\ UDone("u1") /\ uout["u1"].fault.site = "embed" /\ uout["u1"].outcome = "returned"
    /\ SDone("s1") /\ sout["s1"].fault.cls = "HttpResponseError"
    /\ sout["s1"].outcome = "returned"

\* C3: add_file begins only after upload_blob has completed and stored the
\* object, and an upload that fails after that leaves the object in storage when
\* it returns.
C3_UploadBeforePipelineAndKept ==
    \A c \in UploadCalls :
        /\ InPipeline(c) =>
              /\ "upload" \in done_steps[c]
              /\ ulocal[c].filename \in DOMAIN storage
        /\ UDone(c) /\ "upload" \in done_steps[c] =>
              /\ ulocal[c].filename \in DOMAIN snap[c][1]
              /\ ulocal[c].filename \in DOMAIN storage

\* an upload that stored its object and then failed at the index write
C3_Witness ==
    \E c \in UploadCalls :
        /\ UDone(c) /\ "upload" \in done_steps[c]
        /\ uout[c].fault.site = "index"
        /\ snap[c][1][ulocal[c].filename] = Files[uargs[c].filepath]

\* what a search call whose topic is no key of the table has done
NoSearchTraffic(s) ==
    /\ SDone(s)
    /\ clients[s] = {}
    /\ \A q \in requests : q.call # s

Unresolved(s) == spc[s] # "idle" /\ sargs[s].search_topic \notin DOMAIN search_indices

\* C4 as stated: a search whose topic does not resolve returns the not-found
\* result without constructing a client or sending a query, and queries are sent
\* for resolved topics only.
C4_Original ==
    /\ \A s \in SearchCalls :
          Unresolved(s) => NoSearchTraffic(s) /\ sout[s] = Returned(NOT_FOUND)
    /\ \A q \in requests : sargs[q.call].search_topic \in DOMAIN search_indices

\* C4 amended: a search whose topic does not resolve constructs no client and
\* sends no query; it returns the not-found result when AZURE_SEARCH_SERVICE is
\* set and the error naming that setting when it is not; queries are sent for
\* resolved topics only.
C4_NotFoundBeforeNetwork ==
    /\ \A s \in SearchCalls :
          Unresolved(s) =>
              /\ NoSearchTraffic(s)
              /\ sout[s].outcome = "returned"
              /\ sout[s].result =
                    IF SEARCH_SERVICE \in env THEN NOT_FOUND
                    ELSE <<"Error: ", "'AZURE_SEARCH_SERVICE'">>
    /\ \A q \in requests : sargs[q.call].search_topic \in DOMAIN search_indices

\* a search for a case variant of a topic, ended with the not-found result
C4_Witness ==
    \E s \in SearchCalls :
        /\ SDone(s) /\ sargs[s].search_topic = "flask"
        /\ sout[s].result = NOT_FOUND

AllSteps == {"upload"} \cup PipelineSteps

\* the index records of the file at filepath
FileRecords(filepath) ==
    SeqToSet(ChunkRecords(basename(filepath), BlobUrl(basename(filepath)),
                          ChunkSections(ExtractSections(Files[filepath]))))

\* the call returned the success message, which holds the file's base name
IsSuccess(c) ==
    /\ UDone(c)
    /\ uout[c].result = SuccessMessage(basename(uargs[c].filepath))

\* C5: ingesting the same file (same path, bytes and topic) a second time, after
\* the first ingestion returned, leaves storage and the indexes exactly as the
\* first ingestion left them: same objects, same records, no duplicates.
C5_ReingestionIdempotent ==
    \A c1, c2 \in UploadCalls :
        (/\ c1 # c2 /\ IsSuccess(c1) /\ IsSuccess(c2)
         /\ c1 \in preceded[c2] /\ uargs[c1] = uargs[c2])
            => /\ snap[c2] = snap[c1]
               /\ <<storage, index>> = snap[c1]
               /\ Cardinality(DOMAIN storage) = 1
               /\ Cardinality(index[ulocal[c1].search_index])
                     = Len(Files[uargs[c1].filepath])

\* the two-section file ingested twice, one call after the other
C5_Witness ==
    /\ IsSuccess("u1") /\ IsSuccess("u2") /\ "u1" \in preceded["u2"]
    /\ uargs["u1"] = uargs["u2"]
    /\ uargs["u1"].filepath = <<"a", "notes.txt">>

\* the stage and the reason an upload error message carries
ErrorReason(str) == IF Len(str) >= 2 THEN str[2] ELSE None
ErrorStage(str) == IF Len(str) >= 4 THEN str[4] ELSE None

FailedInPipeline(c) == UDone(c) /\ uout[c].fault.site \in PipelineSteps

\* C6: the result of an ingestion that failed in a pipeline stage carries that
\* stage and the underlying reason, so failures of different stages with the same
\* reason give different results.
C6_FailureNamesStage ==
    /\ \A c \in UploadCalls :
          FailedInPipeline(c) =>
              /\ StartsWithError(uout[c].result)
              /\ ErrorStage(uout[c].result) = uout[c].fault.site
              /\ ErrorReason(uout[c].result) = uout[c].fault.msg
    /\ \A c1, c2 \in UploadCalls :
          (/\ FailedInPipeline(c1) /\ FailedInPipeline(c2)
           /\ uout[c1].fault.site # uout[c2].fault.site)
              => uout[c1].result # uout[c2].result

\* an extraction failure and an embedding failure with the same reason
C6_Witness ==
    /\ FailedInPipeline("u1") /\ FailedInPipeline("u2")
    /\ uout["u1"].fault.site = "extract" /\ uout["u2"].fault.site = "embed"
    /\ uout["u1"].fault.msg = uout["u2"].fault.msg

\* str.split("\n")
RECURSIVE SplitLines(_)
SplitLines(str) ==
    IF str = <<>> THEN << <<>> >>
    ELSE LET rest == SplitLines(Tail(str)) IN
         IF Head(str) = NL THEN << <<>> >> \o rest
         ELSE << <<Head(str)>> \o rest[1] >> \o Tail(rest)

NonBlank(line) == line # <<>>

ResultLine(doc) == <<"[", doc.sourcepage, "]: ", doc.content>>

Answered(s) == SDone(s) /\ sresp[s].answered

\* C7: for a backend answer r1..rn, n >= 1, the returned text holds the lines
\* "[sourcepage_i]: content_i", once each and in the backend's order, and a blank
\* line follows each of them before the next.
C7_ResultsFormattedInRankOrder ==
    \A s \in SearchCalls :
        Answered(s) /\ Len(sresp[s].docs) >= 1 =>
            LET docs == sresp[s].docs
                lines == SplitLines(sout[s].result) IN
            /\ sout[s].outcome = "returned"
            /\ SelectSeq(lines, NonBlank) = [i \in 1..Len(docs) |-> ResultLine(docs[i])]
            /\ \A k \in 1..(Len(lines) - 1) : NonBlank(lines[k]) => ~NonBlank(lines[k + 1])

\* two different results, answered in that order
C7_Witness ==
    \E s \in SearchCalls :
        /\ Answered(s) /\ Len(sresp[s].docs) = 2
        /\ sresp[s].docs[1] # sresp[s].docs[2]
        /\ sout[s].result = FormatDoc(sresp[s].docs[1]) \o <<NL, NL>> \o FormatDoc(sresp[s].docs[2])

\* C8: a search whose topic resolves and whose query succeeds with no result
\* returns the empty string, which is no error string.
C8_NoResultsGiveEmptyString ==
    \A s \in SearchCalls :
        Answered(s) /\ sresp[s].docs = <<>> =>
            /\ sout[s].outcome = "returned"
            /\ sout[s].result = <<>>
            /\ ~StartsWithError(sout[s].result)

\* a search of the Flask index answered with no result
C8_Witness ==
    \E s \in SearchCalls :
        /\ Answered(s) /\ sresp[s].docs = <<>> /\ sargs[s].search_topic = FLASK
        /\ \E q \in requests : q.call = s /\ q.index_name = "gptkbindex-flask"

\* C9: an upload returns the success message exactly when the upload and every
\* pipeline stage up to the index write completed; then the file's records are in
\* the index it wrote to when it returns; otherwise it returns an error message.
C9_SuccessIffAllStagesCompleted ==
    \A c \in UploadCalls :
        UDone(c) =>
            /\ IsSuccess(c) <=> done_steps[c] = AllSteps
            /\ IsSuccess(c) =>
                  FileRecords(uargs[c].filepath) \subseteq snap[c][2][ulocal[c].search_index]
            /\ done_steps[c] # AllSteps =>
                  StartsWithError(uout[c].result) /\ ~IsSuccess(c)

\* one upload succeeded, the other failed at the index write after one record
C9_Witness ==
    /\ IsSuccess("u1") /\ done_steps["u1"] = AllSteps
    /\ UDone("u2") /\ uout["u2"].fault.site = "index"
    /\ \E w \in writes : w.call = "u2"

\* storage and indexes after one complete ingestion, started from stores
IngestOnce(stores, args) ==
    <<UploadBlob(stores[1], basename(args.filepath), Files[args.filepath]),
      IndexUpsert(stores[2], IndexOf(IngestTopic(args.search_topic)),
                  FileRecords(args.filepath))>>

InitialStores == <<EmptyStorage, [n \in IndexNames |-> {}]>>

BothIngested(c1, c2) ==
    c1 # c2 /\ IsSuccess(c1) /\ IsSuccess(c2) /\ uargs[c1].filepath # uargs[c2].filepath

\* C10: two ingestions of different files, run in any interleaving, end with
\* both files' objects and records in place, as the two calls run one after the
\* other in either order would leave them, also when the two files have the same
\* base name.
C10_ConcurrentIngestionsIndependent ==
    \A c1, c2 \in UploadCalls :
        BothIngested(c1, c2) =>
            /\ <<storage, index>> = IngestOnce(IngestOnce(InitialStores, uargs[c1]), uargs[c2])
            /\ <<storage, index>> = IngestOnce(IngestOnce(InitialStores, uargs[c2]), uargs[c1])
            /\ \A c \in {c1, c2} :
                  /\ \E n \in DOMAIN storage : storage[n] = Files[uargs[c].filepath]
                  /\ FileRecords(uargs[c].filepath) \subseteq index[ulocal[c].search_index]

Unsupported(c) ==
    /\ upc[c] # "idle"
    /\ uargs[c].filepath \in DOMAIN Files
    /\ Files[uargs[c].filepath] # <<>>
    /\ Extension(basename(uargs[c].filepath)) \notin SupportedExtensions

Contains(str, token) == \E i \in 1..Len(str) : str[i] = token

\* C11: an upload of a non-empty file whose extension matches no extractor
\* variant never returns success and writes nothing into any index; when it gets
\* as far as add_file, the failure message it returns says "Unsupported format".
C11_UnsupportedFormatFails ==
    \A c \in UploadCalls :
        Unsupported(c) =>
            /\ \A w \in writes : w.call # c
            /\ ~IsSuccess(c)
            /\ UDone(c) /\ ulocal[c].search_index # None =>
                  /\ StartsWithError(uout[c].result)
                  /\ Contains(uout[c].result, UNSUPPORTED_FORMAT)

\* the .xyz file, uploaded and then refused by extraction while the other call
\* has indexed its file
C11_Witness ==
    /\ Unsupported("u1") /\ UDone("u1")
    /\ uout["u1"].fault.cls = "UnsupportedFormat"
    /\ "image.xyz" \in DOMAIN storage
    /\ IsSuccess("u2")

\* the provider has failed on every attempt the embedding stage makes
EmbeddingExhausted(c) == ulocal[c].attempts >= MaxEmbedAttempts

\* C12: with embeddings enabled, the embedding stage makes no more than the
\* bounded number of attempts; when the provider has failed on all of them the
\* ingestion has ended in a failure that names the embedding stage, and the call
\* has written no record into any index.
C12_EmbeddingExhaustionFails ==
    \A c \in UploadCalls :
        /\ ulocal[c].attempts <= MaxEmbedAttempts
        /\ ulocal[c].attempts > 0 => ~disable_vectors
        /\ EmbeddingExhausted(c) =>
              /\ UDone(c) /\ ~IsSuccess(c)
              /\ uout[c].outcome = "returned"
              /\ StartsWithError(uout[c].result)
              /\ ErrorStage(uout[c].result) = "embed"
              /\ Contains(uout[c].result, "EmbeddingFailed")
              /\ \A w \in writes : w.call # c

\* an upload whose every embedding attempt timed out
C12_Witness ==
    \E c \in UploadCalls :
        /\ EmbeddingExhausted(c) /\ UDone(c)
        /\ uout[c].fault = StageFault("embed", "timeout")
        /\ "upload" \in done_steps[c]

QueriesOf(s) == {q \in requests : q.call = s}

\* C13: a search issues a single query with the fixed cap of 10 results, asking
\* for semantic ranking, and when semantic ranking is unavailable for the
\* resolved index the call still returns results and not an error string.
C13_SingleCappedQueryWithLexicalFallback ==
    \A s \in SearchCalls :
        /\ Cardinality(QueriesOf(s)) <= 1
        /\ \A q \in QueriesOf(s) : q.top = 10 /\ q.query_type = "semantic"
        /\ SDone(s) /\ sout[s].fault.msg = SEMANTIC_UNAVAILABLE =>
              ~StartsWithError(sout[s].result)

\* the index names the configuration gives the three topics
ConfiguredIndex(topic) ==
    CASE topic = "Model Context Protocol" -> "gptkbindex"
      [] topic = "Flask" -> "gptkbindex-flask"
      [] topic = "ESLint" -> "gptkbindex-eslint"

SupportedTopics == {"Model Context Protocol", "Flask", "ESLint"}

\* the index a search call resolved its topic to, as its client and query show
ResolvedBy(s) ==
    {cl.index_name : cl \in clients[s]} \cup {q.index_name : q \in QueriesOf(s)}

\* C14: topic resolution is an exact-key lookup: a search for one of the three
\* supported topics is sent to that topic's configured index and to no other,
\* different topics go to different indexes, and any other value (a case
\* variant, a partial match) resolves to no index: nothing is sent and, the
\* search service being set, the not-found result is returned.
C14_ExactKeyTopicResolution ==
    /\ \A t \in SupportedTopics : IndexOf(t) = ConfiguredIndex(t)
    /\ \A t1, t2 \in SupportedTopics : t1 # t2 => IndexOf(t1) # IndexOf(t2)
    /\ \A s \in SearchCalls :
          spc[s] # "idle" =>
              LET t == sargs[s].search_topic IN
              /\ t \in SupportedTopics /\ SEARCH_SERVICE \in env =>
                    ResolvedBy(s) = {ConfiguredIndex(t)}
              /\ t \notin SupportedTopics =>
                    /\ ResolvedBy(s) = {}
                    /\ SEARCH_SERVICE \in env => SDone(s) /\ sout[s].result = NOT_FOUND

\* a Flask search sent to the Flask index
C14_Witness ==
    \E s \in SearchCalls :
        /\ sargs[s].search_topic = "Flask"
        /\ ResolvedBy(s) = {"gptkbindex-flask"}
        /\ SDone(s) /\ sresp[s].answered

\* the step invokes call c on a file that exists and is empty
InvokedOnEmptyFile(c) ==
    /\ upc[c] = "idle" /\ upc'[c] # "idle"
    /\ uargs'[c].filepath \in DOMAIN Files
    /\ Files[uargs'[c].filepath] = <<>>

\* a call that has returned does nothing more
StaysDone(c) ==
    UDone(c) =>
        /\ upc'[c] = "done" /\ uout'[c] = uout[c]
        /\ done_steps'[c] = done_steps[c] /\ ulocal'[c] = ulocal[c]
        /\ {w \in writes' : w.call = c} = {w \in writes : w.call = c}

\* C15: an upload of an empty file returns "Error: File is empty." in the step
\* that invokes it, with storage and every index as they were, no upload, no
\* extraction, no index write and no retry made, and does nothing afterwards.
C15_EmptyFileLeavesStoresUnchanged ==
    [][\A c \in UploadCalls :
          /\ InvokedOnEmptyFile(c) =>
                /\ upc'[c] = "done"
                /\ uout'[c] = Returned(FILE_EMPTY)
                /\ storage' = storage /\ index' = index /\ writes' = writes
                /\ snap'[c] = <<storage, index>>
                /\ done_steps'[c] = {} /\ ulocal'[c] = NoLocals
          /\ StaysDone(c)]_vars

\* the empty file refused after the other call has stored and indexed its file
C15_Witness ==
    /\ IsSuccess("u1")
    /\ UDone("u2") /\ uargs["u2"].filepath = <<"a", "empty.txt">>
    /\ uout["u2"].result = FILE_EMPTY
    /\ "u1" \in preceded["u2"]
    /\ snap["u2"] = snap["u1"]

\* the call ended on a configuration error: a setting that is not set, or a
\* topic that resolves to no index
ConfigurationError(c) ==
    /\ UDone(c)
    /\ \/ uout[c].result = STORAGE_NOT_CONFIGURED
       \/ uout[c].result = NOT_FOUND
       \/ uout[c].fault.cls = "KeyError"

\* C16: when an upload returns a configuration error, that call has uploaded no
\* object to storage and written no record into any index.
C16_ConfigurationErrorBeforeSideEffects ==
    \A c \in UploadCalls :
        ConfigurationError(c) =>
            /\ "upload" \notin done_steps[c]
            /\ \A w \in writes : w.call # c

====
